---- MODULE Spec2Model ----
(***************************************************************************)
(* LiquidAlpha server: indicator library, signal engine, periodic          *)
(* scheduler, WebSocket broadcast hub and the Hyperliquid RPC wrapper.     *)
(*                                                                         *)
(* Numbers: the source computes in float64.  Here every indicator value    *)
(* is a fixed-point integer with Scale units per 1.0 and divisions round   *)
(* to nearest; prices are whole numbers.  NaN is the sentinel NaN.         *)
(***************************************************************************)
EXTENDS Integers, Sequences, FiniteSets, TLC

VARIABLES
    clients,        \* server.ts:64  the Set<WebSocket>, in insertion order
    readyState,     \* ws.readyState of every channel (kept by the ws library)
    connected,      \* history: channels whose 'connection' event has fired
    closeNotified,  \* history: channels whose 'close' event has fired
    lastPublish,    \* history: what the latest broadcast call did
    published,      \* history: the broadcast calls so far
    rpc,            \* the getFundingRate / postJSON call in progress
    priceHistory,   \* the price_history table, per symbol
    markets,        \* the markets table: the number of snapshot rows
    signals,        \* the signals table, in insertion order; by and basis are
                    \* history: the run that inserted the row and the rows it read
    clock,          \* the wall clock read by new Date()
    marketTicks,    \* the invocations of updateMarkets, in start order
    runs,           \* the invocations of generateSignals and their callers
    probe           \* one call of a pure function: its arguments and its result

schedVars == <<priceHistory, markets, signals, clock, marketTicks, runs>>

hubVars == <<clients, readyState, connected, closeNotified, lastPublish, published>>

vars == <<clients, readyState, connected, closeNotified, lastPublish, published,
          rpc, priceHistory, markets, signals, clock, marketTicks, runs, probe>>

(*************************** program constants ****************************)
HISTORY_LIMIT == 256
MinHistory == 210
EmaFastPeriod == 50
EmaSlowPeriod == 200
MacdFast == 12
MacdSlow == 26
MacdSignal == 9
RsiLength == 14
BaseConfidence == 60
Bonus == 10
MaxConfidence == 100
NaN == -1000000

(* fixed-point resolution of the model's arithmetic *)
Scale == 1000

Symbols == <<"BTC", "ETH", "SOL">>

(****************************** arithmetic ********************************)
Abs(x) == IF x < 0 THEN -x ELSE x

Min(a, b) == IF a < b THEN a ELSE b

\* a / b rounded to nearest, b > 0
RDiv(a, b) == (2 * a + b) \div (2 * b)

Last(s) == s[Len(s)]

\* s \o <<>> is s; it makes TLC hold the sequence as a tuple of values
Reverse(s) == [i \in 1..Len(s) |-> s[Len(s) + 1 - i]] \o <<>>

(***************************** indicators *********************************)
\* ema: out[0] = series[0]; out[i] = series[i]*k + out[i-1]*(1-k), k = 2/(period+1).
\* EmaRun appends the entries lo..hi to out (the loop of lines 28-32, split in
\* halves so that the evaluation stays shallow).
RECURSIVE EmaRun(_, _, _, _, _)
EmaRun(series, period, lo, hi, out) ==
    IF lo > hi \/ Len(out) # lo - 1 THEN out
    ELSE IF lo = hi
    THEN Append(out, RDiv(2 * series[lo] + (period - 1) * out[lo - 1], period + 1))
    ELSE LET mid == (lo + hi) \div 2
         IN  EmaRun(series, period, mid + 1, hi, EmaRun(series, period, lo, mid, out))

ema(series, period) ==
    IF period <= 1 THEN series
    ELSE IF Len(series) = 0 THEN <<NaN>>
    ELSE EmaRun(series, period, 2, Len(series), <<series[1]>>)

\* macd: empty arrays when the series is shorter than slow + signal + 5
macd(series, fast, slow, signal) ==
    IF Len(series) < slow + signal + 5
    THEN [macd |-> <<>>, signal |-> <<>>, hist |-> <<>>]
    ELSE LET emaFast == ema(series, fast)
             emaSlow == ema(series, slow)
             macdLine == [i \in 1..Len(series) |-> emaFast[i] - emaSlow[i]] \o <<>>
             signalLine == ema(macdLine, signal)
         IN  [macd |-> macdLine, signal |-> signalLine,
              hist |-> [i \in 1..Len(macdLine) |-> macdLine[i] - signalLine[i]]]

\* rsi: the first `length` entries are NaN; entry `length` is seeded from the
\* average gain and loss of the first `length` differences; later entries use
\* Wilder smoothing.  rs is 0 when avgLoss is 0.
RsiValue(avgGain, avgLoss) ==
    LET rs == IF avgLoss = 0 THEN 0 ELSE RDiv(avgGain * Scale, avgLoss)
    IN  100 * Scale - RDiv(100 * Scale * Scale, Scale + rs)

\* sums of the gains and of the losses over the differences lo..hi (lines 85-89)
RECURSIVE SeedSum(_, _, _)
SeedSum(series, lo, hi) ==
    IF lo > hi THEN <<0, 0>>
    ELSE IF lo = hi
    THEN LET diff == series[lo + 1] - series[lo]
         IN  IF diff >= 0 THEN <<diff, 0>> ELSE <<0, -diff>>
    ELSE LET mid == (lo + hi) \div 2
             a == SeedSum(series, lo, mid)
             b == SeedSum(series, mid + 1, hi)
         IN  <<a[1] + b[1], a[2] + b[2]>>

\* st = [avgGain, avgLoss, out]: the Wilder-smoothed entries lo..hi (lines 97-105)
RECURSIVE RsiRun(_, _, _, _, _)
RsiRun(series, length, lo, hi, st) ==
    IF lo > hi \/ Len(st.out) # lo - 1 THEN st
    ELSE IF lo = hi
    THEN LET diff == series[lo] - series[lo - 1]
             gain == IF diff > 0 THEN diff ELSE 0
             loss == IF diff < 0 THEN -diff ELSE 0
             avgGain == RDiv(st.avgGain * (length - 1) + gain, length)
             avgLoss == RDiv(st.avgLoss * (length - 1) + loss, length)
         IN  [avgGain |-> avgGain, avgLoss |-> avgLoss,
              out |-> Append(st.out, RsiValue(avgGain, avgLoss))]
    ELSE LET mid == (lo + hi) \div 2
         IN  RsiRun(series, length, mid + 1, hi, RsiRun(series, length, lo, mid, st))

rsi(series, length) ==
    IF Len(series) < length + 1
    THEN [i \in 1..(length + 1) |-> NaN]
    ELSE LET sums == SeedSum(series, 1, length)
             avgGain == RDiv(sums[1], length)
             avgLoss == RDiv(sums[2], length)
         IN  RsiRun(series, length, length + 2, Len(series),
                    [avgGain |-> avgGain, avgLoss |-> avgLoss,
                     out |-> [i \in 1..(length + 1) |->
                         IF i <= length THEN NaN ELSE RsiValue(avgGain, avgLoss)]]).out

isNaN(x) == x = NaN

(**************************** signal engine *******************************)
\* technical-analysis.ts, the synchronous block between the history read and
\* the insert: the indicator snapshot of one symbol.
Snapshot(history) ==
    LET closes == Reverse([i \in 1..Len(history) |-> history[i] * Scale] \o <<>>)
        ema50 == ema(closes, EmaFastPeriod)
        ema200 == ema(closes, EmaSlowPeriod)
        macdHist == macd(closes, MacdFast, MacdSlow, MacdSignal).hist
        rsiSeries == rsi(closes, RsiLength)
    IN  [latestEma50 |-> Last(ema50), latestEma200 |-> Last(ema200),
         latestMacdHist |-> Last(macdHist), latestRsi |-> Last(rsiSeries)]

\* |ema50 - ema200| / ema200 > 0.005 in float64 (x/0 is Infinity, 0/0 is NaN)
RelativeGapWide(e50, e200) ==
    IF e200 > 0 THEN Abs(e50 - e200) * 1000 > 5 * e200
    ELSE IF e200 = 0 THEN e50 # e200
    ELSE FALSE

\* trend and momentum need not agree for a SHORT
DecideLoose(snap) ==
    LET trendBullish == snap.latestEma50 > snap.latestEma200
        momentumBullish == snap.latestMacdHist > 0
        bullish == trendBullish /\ momentumBullish
        bearish == ~trendBullish \/ ~momentumBullish
    IN  [emit |-> bullish \/ bearish,
         signalType |-> IF bullish THEN "LONG" ELSE "SHORT",
         confidence |-> BaseConfidence + Bonus,
         trendBullish |-> trendBullish,
         momentumBullish |-> momentumBullish,
         rsiBullish |-> trendBullish]

\* the confidence grows with the size of the histogram and is not clamped
DecideScaled(snap) ==
    LET trendBullish == snap.latestEma50 > snap.latestEma200
        momentumBullish == snap.latestMacdHist > 0
        bullish == trendBullish /\ momentumBullish
        bearish == ~trendBullish /\ ~momentumBullish
    IN  [emit |-> bullish \/ bearish,
         signalType |-> IF bullish THEN "LONG" ELSE "SHORT",
         confidence |-> BaseConfidence + Abs(snap.latestMacdHist),
         trendBullish |-> trendBullish,
         momentumBullish |-> momentumBullish,
         rsiBullish |-> trendBullish]

\* the RSI read as momentum: above 70 bullish, below 30 bearish
DecideRsiMomentum(snap) ==
    LET trendBullish == snap.latestEma50 > snap.latestEma200
        momentumBullish == snap.latestMacdHist > 0
        rsiBullish == IF isNaN(snap.latestRsi) THEN FALSE
                      ELSE IF snap.latestRsi < 30 * Scale THEN FALSE
                      ELSE IF snap.latestRsi > 70 * Scale THEN TRUE
                      ELSE trendBullish
        bullish == trendBullish /\ momentumBullish
        bearish == ~trendBullish /\ ~momentumBullish
        c0 == BaseConfidence
        c1 == IF (bullish \/ bearish) /\ Abs(snap.latestMacdHist) > 0
              THEN c0 + Bonus ELSE c0
        c2 == IF RelativeGapWide(snap.latestEma50, snap.latestEma200)
              THEN c1 + Bonus ELSE c1
        c3 == IF rsiBullish = bullish THEN c2 + Bonus ELSE c2
        confidence == IF c3 > MaxConfidence THEN MaxConfidence ELSE c3
    IN  [emit |-> bullish \/ bearish,
         signalType |-> IF bullish THEN "LONG" ELSE "SHORT",
         confidence |-> confidence,
         trendBullish |-> trendBullish,
         momentumBullish |-> momentumBullish,
         rsiBullish |-> rsiBullish]

\* the two directions exchanged
DecideSwapped(snap) ==
    LET trendBullish == snap.latestEma50 > snap.latestEma200
        momentumBullish == snap.latestMacdHist > 0
        rsiBullish == IF isNaN(snap.latestRsi) THEN FALSE
                      ELSE IF snap.latestRsi < 30 * Scale THEN TRUE
                      ELSE IF snap.latestRsi > 70 * Scale THEN FALSE
                      ELSE trendBullish
        bullish == trendBullish /\ momentumBullish
        bearish == ~trendBullish /\ ~momentumBullish
        c0 == BaseConfidence
        c1 == IF (bullish \/ bearish) /\ Abs(snap.latestMacdHist) > 0
              THEN c0 + Bonus ELSE c0
        c2 == IF RelativeGapWide(snap.latestEma50, snap.latestEma200)
              THEN c1 + Bonus ELSE c1
        c3 == IF rsiBullish = bullish THEN c2 + Bonus ELSE c2
        confidence == IF c3 > MaxConfidence THEN MaxConfidence ELSE c3
    IN  [emit |-> bullish \/ bearish,
         signalType |-> IF bullish THEN "SHORT" ELSE "LONG",
         confidence |-> confidence,
         trendBullish |-> trendBullish,
         momentumBullish |-> momentumBullish,
         rsiBullish |-> rsiBullish]

\* the relative gap of the two averages earns no bonus
DecideNoGapBonus(snap) ==
    LET trendBullish == snap.latestEma50 > snap.latestEma200
        momentumBullish == snap.latestMacdHist > 0
        rsiBullish == IF isNaN(snap.latestRsi) THEN FALSE
                      ELSE IF snap.latestRsi < 30 * Scale THEN TRUE
                      ELSE IF snap.latestRsi > 70 * Scale THEN FALSE
                      ELSE trendBullish
        bullish == trendBullish /\ momentumBullish
        bearish == ~trendBullish /\ ~momentumBullish
        c0 == BaseConfidence
        c1 == IF (bullish \/ bearish) /\ Abs(snap.latestMacdHist) > 0
              THEN c0 + Bonus ELSE c0
        c3 == IF rsiBullish = bullish THEN c1 + Bonus ELSE c1
        confidence == IF c3 > MaxConfidence THEN MaxConfidence ELSE c3
    IN  [emit |-> bullish \/ bearish,
         signalType |-> IF bullish THEN "LONG" ELSE "SHORT",
         confidence |-> confidence,
         trendBullish |-> trendBullish,
         momentumBullish |-> momentumBullish,
         rsiBullish |-> rsiBullish]

\* the MACD bonus granted to a positive histogram only
DecidePositiveHistBonus(snap) ==
    LET trendBullish == snap.latestEma50 > snap.latestEma200
        momentumBullish == snap.latestMacdHist > 0
        rsiBullish == IF isNaN(snap.latestRsi) THEN FALSE
                      ELSE IF snap.latestRsi < 30 * Scale THEN TRUE
                      ELSE IF snap.latestRsi > 70 * Scale THEN FALSE
                      ELSE trendBullish
        bullish == trendBullish /\ momentumBullish
        bearish == ~trendBullish /\ ~momentumBullish
        c0 == BaseConfidence
        c1 == IF (bullish \/ bearish) /\ snap.latestMacdHist > 0
              THEN c0 + Bonus ELSE c0
        c2 == IF RelativeGapWide(snap.latestEma50, snap.latestEma200)
              THEN c1 + Bonus ELSE c1
        c3 == IF rsiBullish = bullish THEN c2 + Bonus ELSE c2
        confidence == IF c3 > MaxConfidence THEN MaxConfidence ELSE c3
    IN  [emit |-> bullish \/ bearish,
         signalType |-> IF bullish THEN "LONG" ELSE "SHORT",
         confidence |-> confidence,
         trendBullish |-> trendBullish,
         momentumBullish |-> momentumBullish,
         rsiBullish |-> rsiBullish]

Decide(snap) ==
    LET trendBullish == snap.latestEma50 > snap.latestEma200
        momentumBullish == snap.latestMacdHist > 0
        rsiBullish == IF isNaN(snap.latestRsi) THEN FALSE
                      ELSE IF snap.latestRsi < 30 * Scale THEN TRUE
                      ELSE IF snap.latestRsi > 70 * Scale THEN FALSE
                      ELSE trendBullish
        bullish == trendBullish /\ momentumBullish
        bearish == ~trendBullish /\ ~momentumBullish
        c0 == BaseConfidence
        c1 == IF (bullish \/ bearish) /\ Abs(snap.latestMacdHist) > 0
              THEN c0 + Bonus ELSE c0
        c2 == IF RelativeGapWide(snap.latestEma50, snap.latestEma200)
              THEN c1 + Bonus ELSE c1
        c3 == IF rsiBullish = bullish THEN c2 + Bonus ELSE c2
        confidence == IF c3 > MaxConfidence THEN MaxConfidence ELSE c3
    IN  [emit |-> bullish \/ bearish,
         signalType |-> IF bullish THEN "LONG" ELSE "SHORT",
         confidence |-> confidence,
         trendBullish |-> trendBullish,
         momentumBullish |-> momentumBullish,
         rsiBullish |-> rsiBullish]

(***************************** broadcast hub ******************************)
MaxChannels == 2
MaxPublished == 2

Channels == 1..MaxChannels

Events == {"marketUpdate", "newSignal"}

SeqToSet(s) == {s[i] : i \in 1..Len(s)}

\* Set.add (server.ts:82): a Set keeps insertion order and no duplicates
AddClient(cs, ws) == IF ws \in SeqToSet(cs) THEN cs ELSE Append(cs, ws)

\* Set.delete (server.ts:84)
DeleteClient(cs, ws) == SelectSeq(cs, LAMBDA c : c # ws)

\* The for-loop of broadcast (server.ts:70-78) over the registry cs, from
\* its entry i on.  rs is every channel's readyState, throwers the channels
\* whose ws.send throws in this call.  attempted: the channels ws.send was
\* called on, in order; delivered: those whose send returned; threw: whether
\* an exception left the loop.
\* the loop without its try/catch: the first throw leaves it
RECURSIVE SendLoopNoCatch(_, _, _, _)
SendLoopNoCatch(cs, rs, throwers, i) ==
    IF i > Len(cs) THEN [attempted |-> <<>>, delivered |-> {}, threw |-> FALSE]
    ELSE LET ws == cs[i]
         IN  IF rs[ws] # "OPEN" THEN SendLoopNoCatch(cs, rs, throwers, i + 1)
             ELSE IF ws \in throwers
             THEN [attempted |-> <<ws>>, delivered |-> {}, threw |-> TRUE]
             ELSE LET rest == SendLoopNoCatch(cs, rs, throwers, i + 1)
                  IN  [attempted |-> <<ws>> \o rest.attempted,
                       delivered |-> {ws} \cup rest.delivered,
                       threw |-> rest.threw]

\* the loop without its readyState test: send is called on every entry
RECURSIVE SendLoopAnyState(_, _, _, _)
SendLoopAnyState(cs, rs, throwers, i) ==
    IF i > Len(cs) THEN [attempted |-> <<>>, delivered |-> {}, threw |-> FALSE]
    ELSE LET ws == cs[i]
             rest == SendLoopAnyState(cs, rs, throwers, i + 1)
         IN  [attempted |-> <<ws>> \o rest.attempted,
              delivered |-> (IF ws \in throwers \/ rs[ws] # "OPEN" THEN {} ELSE {ws})
                            \cup rest.delivered,
              threw |-> rest.threw]

RECURSIVE SendLoop(_, _, _, _)
SendLoop(cs, rs, throwers, i) ==
    IF i > Len(cs) THEN [attempted |-> <<>>, delivered |-> {}, threw |-> FALSE]
    ELSE LET ws == cs[i]
             rest == SendLoop(cs, rs, throwers, i + 1)
         IN  IF rs[ws] = "OPEN"
             THEN [attempted |-> <<ws>> \o rest.attempted,
                   delivered |-> (IF ws \in throwers THEN {} ELSE {ws})
                                 \cup rest.delivered,
                   threw |-> rest.threw]
             ELSE rest

\* broadcast(event, payload) (server.ts:68-79): the registry after the call
\* and what the call did.
OpenIn(cs, rs) == {c \in SeqToSet(cs) : rs[c] = "OPEN"}

\* a broadcast that drops from the registry the clients whose send threw
broadcastDropFailed(cs, rs, throwers) ==
    LET run == SendLoop(cs, rs, throwers, 1)
    IN  [clients |-> SelectSeq(cs, LAMBDA c : ~(c \in throwers /\ rs[c] = "OPEN")),
         registry |-> SeqToSet(cs),
         open |-> OpenIn(cs, rs),
         throwers |-> throwers \cap OpenIn(cs, rs),
         attempted |-> run.attempted,
         delivered |-> run.delivered,
         threw |-> run.threw]

broadcast(cs, rs, throwers) ==
    LET run == SendLoop(cs, rs, throwers, 1)
    IN  [clients |-> cs,
         registry |-> SeqToSet(cs),
         open |-> OpenIn(cs, rs),
         throwers |-> throwers \cap OpenIn(cs, rs),
         attempted |-> run.attempted,
         delivered |-> run.delivered,
         threw |-> run.threw]

NoPublish ==
    [clients |-> <<>>, registry |-> {}, open |-> {}, throwers |-> {},
     attempted |-> <<>>, delivered |-> {}, threw |-> FALSE]

\* The hub half of a broadcast call made by any caller.
Broadcast(event, tag, throwers) ==
    LET b == broadcast(clients, readyState, throwers)
    IN  /\ clients' = b.clients
        /\ lastPublish' = b
        /\ published' = published \cup {[event |-> event, tag |-> tag]}
        /\ UNCHANGED <<readyState, connected, closeNotified>>

HubInit ==
    /\ clients = <<>>
    /\ readyState = [c \in Channels |-> "NEW"]
    /\ connected = {}
    /\ closeNotified = {}
    /\ lastPublish = NoPublish
    /\ published = {}

\* wss.on('connection') (server.ts:81-82)
Connect(ws) ==
    /\ readyState[ws] = "NEW"
    /\ readyState' = [readyState EXCEPT ![ws] = "OPEN"]
    /\ clients' = AddClient(clients, ws)
    /\ connected' = connected \cup {ws}
    /\ UNCHANGED <<closeNotified, lastPublish, published>>
    /\ UNCHANGED <<rpc, schedVars, probe>>

\* The closing handshake starts: the ws library moves the socket to CLOSING;
\* no handler of the server runs.
BeginClose(ws) ==
    /\ readyState[ws] = "OPEN"
    /\ readyState' = [readyState EXCEPT ![ws] = "CLOSING"]
    /\ UNCHANGED <<clients, connected, closeNotified, lastPublish, published>>
    /\ UNCHANGED <<rpc, schedVars, probe>>

\* ws.on('close') (server.ts:83-85)
OnClose(ws) ==
    /\ readyState[ws] \in {"OPEN", "CLOSING"}
    /\ readyState' = [readyState EXCEPT ![ws] = "CLOSED"]
    /\ clients' = DeleteClient(clients, ws)
    /\ closeNotified' = closeNotified \cup {ws}
    /\ UNCHANGED <<connected, lastPublish, published>>
    /\ UNCHANGED <<rpc, schedVars, probe>>

\* A broadcast call, whoever makes it.
Publish(event, throwers) ==
    /\ Cardinality(published) < MaxPublished
    /\ Broadcast(event, [call |-> Cardinality(published) + 1], throwers)
    /\ UNCHANGED <<rpc, schedVars, probe>>

(************************ Hyperliquid RPC wrapper *************************)
BackoffBase == 300
BackoffCap == 30000
DefaultRetries == 2
MaxRetries == 7

RECURSIVE Pow2(_)
Pow2(n) == IF n <= 0 THEN 1 ELSE 2 * Pow2(n - 1)

\* What one request can come to:
\*   ok          2xx, body is JSON of the FundingRateRes shape
\*   okBadShape  2xx, body is JSON that fails FundingRateRes.safeParse
\*   okBadJson   2xx, resp.json() throws
\*   http4xx     a 4xx status other than 429
\*   http429, http5xx
\*   transport   fetch rejects (network error, or the timeout aborts it)
Outcomes == {"ok", "okBadShape", "okBadJson", "http4xx", "http429", "http5xx",
             "transport"}

RpcIdle ==
    [pc |-> "idle", retries |-> DefaultRetries, attempt |-> 0, requests |-> 0,
     last |-> "none", delays |-> <<>>, error |-> "none"]

\* the values of `retries` a call is made with: from none, through the
\* default, to enough for the delay to reach its cap
RetryChoices == 0..MaxRetries

\* the delay computed before the attempt is counted: 300, 600, 1200, ...
RetryFromBase(st) ==
    [st EXCEPT !.pc = "backoff",
               !.attempt = st.attempt + 1,
               !.delays = Append(st.delays,
                                 Min(BackoffBase * Pow2(st.attempt), BackoffCap))]

\* auth.ts:150-152 and 161-163: count the attempt, wait, go round the loop
Retry(st) ==
    [st EXCEPT !.pc = "backoff",
               !.attempt = st.attempt + 1,
               !.delays = Append(st.delays,
                                 Min(BackoffBase * Pow2(st.attempt + 1), BackoffCap))]

\* a catch block that retries once more than the budget allows
CatchOnceMore(st, err) ==
    IF st.attempt <= st.retries THEN Retry(st)
    ELSE [st EXCEPT !.pc = "failed", !.error = err]

\* the catch block of postJSON (auth.ts:159-167)
Catch(st, err) ==
    IF st.attempt < st.retries THEN Retry(st)
    ELSE [st EXCEPT !.pc = "failed", !.error = err]

\* One turn of the while loop of postJSON (auth.ts:136-168) on the response
\* `outcome`, followed, when postJSON returns, by the validation of
\* getFundingRate (auth.ts:184-193).
PostJsonStep(st, outcome) ==
    LET sent == [st EXCEPT !.requests = st.requests + 1, !.last = outcome]
    IN  CASE outcome = "transport" -> Catch(sent, "transport")
          [] outcome \in {"http5xx", "http429"} ->
                IF sent.attempt < sent.retries THEN Retry(sent)
                ELSE Catch(sent, "http")
          [] outcome = "http4xx" -> Catch(sent, "http")
          [] outcome = "okBadJson" -> Catch(sent, "json")
          [] outcome = "okBadShape" ->
                [sent EXCEPT !.pc = "failed",
                             !.error = "FundingRateDeserializationError"]
          [] OTHER -> [sent EXCEPT !.pc = "returned"]

\* GET /api/funding/:symbol calls getFundingRate, which calls postJSON
CallFundingRate(r) ==
    /\ rpc.pc \in {"idle", "returned", "failed"}
    /\ rpc' = [RpcIdle EXCEPT !.pc = "request", !.retries = r]
    /\ UNCHANGED <<hubVars, schedVars, probe>>

Request(outcome) ==
    /\ rpc.pc = "request"
    /\ rpc' = PostJsonStep(rpc, outcome)
    /\ UNCHANGED <<hubVars, schedVars, probe>>

\* the setTimeout of the backoff fires (auth.ts:152, 163)
BackoffDone ==
    /\ rpc.pc = "backoff"
    /\ rpc' = [rpc EXCEPT !.pc = "request"]
    /\ UNCHANGED <<hubVars, schedVars, probe>>

(************************** price history store ***************************)
\* how many timer firings and requests a behaviour holds, of any kinds
MaxInvocations == 2

SymbolSet == SeqToSet(Symbols)

\* The prices a fetch can return (one quote per tick, the same for the three
\* symbols) and the histories the store can hold when the model starts: each
\* an ascending series of closes, older than every row a tick appends.
Quotes == {40, 160}

Seeds == {"up", "down", "dip", "flat", "short"}

SeedCloses(seed) ==
    CASE seed = "up" ->
            [i \in 1..211 |-> 50 + (i \div 4) + (IF i > 201 THEN 2 * (i - 201) ELSE 0)]
      [] seed = "down" ->
            [i \in 1..211 |-> 200 - (i \div 4) - (IF i > 201 THEN 2 * (i - 201) ELSE 0)]
      [] seed = "dip" ->
            [i \in 1..211 |-> 50 + (i \div 4) - (IF i > 206 THEN 3 * (i - 206) ELSE 0)]
      [] seed = "flat" -> [i \in 1..211 |-> 100]
      [] OTHER ->
            [i \in 1..209 |-> 50 + (i \div 4) + (IF i > 199 THEN 2 * (i - 199) ELSE 0)]

\* the three symbols' seeds in the initial states
Scenarios == {<<"up", "short", "down">>, <<"dip", "flat", "up">>}

\* rows sorted by timestamp, newest first (ORDER BY timestamp DESC)
RECURSIVE SortDesc(_)
SortDesc(rows) ==
    IF Len(rows) <= 1 THEN rows
    ELSE LET newest == CHOOSE i \in 1..Len(rows) :
                           \A j \in 1..Len(rows) : rows[j].timestamp <= rows[i].timestamp
         IN  <<rows[newest]>>
             \o SortDesc([k \in 1..(Len(rows) - 1) |->
                             IF k < newest THEN rows[k] ELSE rows[k + 1]])

\* the price column of the rows a tick appended, newest first
RecentPrices(h) ==
    LET recent == SortDesc(h.rows)
    IN  [i \in 1..Len(recent) |-> recent[i].price]

\* getPriceHistory(symbol, limit) (price-history.ts:49-56) on the rows of one
\* symbol: recent, the appended prices newest first, then the seed's
HistoryDesc(seed, recent, limit) ==
    LET all == recent \o Reverse(SeedCloses(seed))
    IN  IF Len(all) <= limit THEN all ELSE SubSeq(all, 1, limit)

getPriceHistory(h, limit) == HistoryDesc(h.seed, RecentPrices(h), limit)

\* addPricePoints([{symbol, price, timestamp}]) (price-history.ts:32-40)
addPricePoints(h, price, timestamp) ==
    [h EXCEPT !.rows = Append(h.rows, [price |-> price, timestamp |-> timestamp])]

(************************ generateSignals, one symbol *********************)
\* technical-analysis.ts:30-77 on the rows read for one symbol: "skip" (too
\* little history, or trend and momentum disagree) or the Signal to insert.
\* no minimum of history
EvaluateNoMinimum(history) ==
    LET d == Decide(Snapshot(history))
    IN  IF ~d.emit
        THEN [outcome |-> "conflict", rows |-> Len(history),
              signalType |-> "none", confidence |-> 0]
        ELSE [outcome |-> "signal", rows |-> Len(history),
              signalType |-> d.signalType, confidence |-> d.confidence]

Evaluate(history) ==
    IF Len(history) < MinHistory
    THEN [outcome |-> "short", rows |-> Len(history), signalType |-> "none",
          confidence |-> 0]
    ELSE LET d == Decide(Snapshot(history))
         IN  IF ~d.emit
             THEN [outcome |-> "conflict", rows |-> Len(history),
                   signalType |-> "none", confidence |-> 0]
             ELSE [outcome |-> "signal", rows |-> Len(history),
                   signalType |-> d.signalType, confidence |-> d.confidence]

\* Every history the store of the model can return, and Evaluate on each.
\* (Evaluate is a function of the rows read; the table is that function on
\* the model's histories, computed once.)
RECURSIVE QuoteSeqs(_)
QuoteSeqs(n) ==
    IF n = 0 THEN {<<>>}
    ELSE LET shorter == QuoteSeqs(n - 1)
         IN  shorter \cup {Append(q, p) : q \in {x \in shorter : Len(x) = n - 1},
                                           p \in Quotes}

StoreKeys == [seed : Seeds, recent : QuoteSeqs(MaxInvocations)]

\* (f @@ <<>> is f; it makes TLC hold the table as computed values)
EvaluateTable ==
    [k \in StoreKeys |-> Evaluate(HistoryDesc(k.seed, k.recent, HISTORY_LIMIT))] @@ <<>>

\* the indicator snapshot of every history of the model
SnapshotTable ==
    [k \in StoreKeys |-> Snapshot(HistoryDesc(k.seed, k.recent, HISTORY_LIMIT))] @@ <<>>

\* the key of the rows of one symbol in the table
StoreKey(h) == [seed |-> h.seed, recent |-> RecentPrices(h)]

\* generateSignals reads the rows of a symbol and evaluates them
ReadAndEvaluate(h) == EvaluateTable[StoreKey(h)]

(******************************* scheduler ********************************)
NoSignal == [asset |-> "none", signalType |-> "none", confidence |-> 0]

MarketInFlight == {"fetch", "insertMarket", "addPrice", "publish"}

RunInFlight == {"read", "insert", "select"}

SetTick(i, t) == marketTicks' = [marketTicks EXCEPT ![i] = t]

SetRun(i, r) == runs' = [runs EXCEPT ![i] = r]

TicksOf(kind) == {i \in 1..Len(runs) : runs[i].kind = kind}

SchedInit ==
    /\ \E sc \in Scenarios :
          priceHistory = [sym \in SymbolSet |->
              [seed |-> sc[CHOOSE k \in 1..Len(Symbols) : Symbols[k] = sym],
               rows |-> <<>>]]
    /\ markets = 0
    /\ signals = <<>>
    /\ clock = 0
    /\ marketTicks = <<>>
    /\ runs = <<>>

\* setInterval(updateMarkets, 10_000) fires (server.ts:183): the callback is
\* called whatever the earlier invocations are doing.
MarketTimer ==
    /\ Len(marketTicks) + Len(runs) < MaxInvocations
    /\ marketTicks' = Append(marketTicks,
           [pc |-> "fetch", idx |-> 0, quote |-> 0, timestamp |-> 0, fetches |-> 0])
    /\ UNCHANGED <<priceHistory, markets, signals, clock, runs, hubVars, rpc, probe>>

\* fetchMarketData resolves with data (server.ts:101-127, 145-147)
FetchOk(i, q) ==
    /\ marketTicks[i].pc = "fetch"
    /\ clock' = clock + 1
    /\ SetTick(i, [marketTicks[i] EXCEPT !.pc = "insertMarket", !.idx = 1, !.quote = q,
                                         !.timestamp = clock + 1,
                                         !.fetches = @ + 1])
    /\ UNCHANGED <<priceHistory, markets, signals, runs, hubVars, rpc, probe>>

\* a fetchMarketData that fetches a second time within the tick after a failure
FetchFailRetrying(i) ==
    /\ marketTicks[i].pc = "fetch"
    /\ SetTick(i, [marketTicks[i] EXCEPT
                      !.pc = IF marketTicks[i].fetches = 0 THEN "fetch" ELSE "skipped",
                      !.fetches = @ + 1])
    /\ UNCHANGED <<priceHistory, markets, signals, clock, runs, hubVars, rpc, probe>>

\* fetchMarketData catches its failure and resolves undefined (server.ts:128-131, 146)
FetchFail(i) ==
    /\ marketTicks[i].pc = "fetch"
    /\ SetTick(i, [marketTicks[i] EXCEPT !.pc = "skipped", !.fetches = @ + 1])
    /\ UNCHANGED <<priceHistory, markets, signals, clock, runs, hubVars, rpc, probe>>

\* await db.insert(markets) (server.ts:151-156)
InsertMarketOk(i) ==
    /\ marketTicks[i].pc = "insertMarket"
    /\ markets' = markets + 1
    /\ SetTick(i, [marketTicks[i] EXCEPT !.pc = "addPrice"])
    /\ UNCHANGED <<priceHistory, signals, clock, runs, hubVars, rpc, probe>>

\* an await of updateMarkets rejects: nothing in updateMarkets catches it, the
\* promise setInterval dropped rejects (server.ts:144-162, 183)
MarketStoreFail(i) ==
    /\ marketTicks[i].pc \in {"insertMarket", "addPrice"}
    /\ SetTick(i, [marketTicks[i] EXCEPT !.pc = "rejected"])
    /\ UNCHANGED <<priceHistory, markets, signals, clock, runs, hubVars, rpc, probe>>

\* addPricePoints called without await: the tick goes on to its broadcast
\* while the write is still on its way
AddPriceNotAwaited(i) ==
    /\ marketTicks[i].pc = "addPrice"
    /\ SetTick(i, [marketTicks[i] EXCEPT !.pc = "publish"])
    /\ UNCHANGED <<priceHistory, markets, signals, clock, runs, hubVars, rpc, probe>>

\* await addPricePoints (server.ts:158)
AddPriceOk(i) ==
    /\ marketTicks[i].pc = "addPrice"
    /\ LET sym == Symbols[marketTicks[i].idx]
       IN  priceHistory' = [priceHistory EXCEPT ![sym] =
               addPricePoints(@, marketTicks[i].quote, marketTicks[i].timestamp)]
    /\ SetTick(i, [marketTicks[i] EXCEPT !.pc = "publish"])
    /\ UNCHANGED <<markets, signals, clock, runs, hubVars, rpc, probe>>

\* broadcast('marketUpdate', ...) and the next turn of the loop (server.ts:148, 160)
PublishMarket(i) ==
    /\ marketTicks[i].pc = "publish"
    /\ Broadcast("marketUpdate",
                 [symbol |-> Symbols[marketTicks[i].idx],
                  timestamp |-> marketTicks[i].timestamp], {})
    /\ SetTick(i, IF marketTicks[i].idx < Len(Symbols)
                  THEN [marketTicks[i] EXCEPT !.pc = "insertMarket", !.idx = @ + 1]
                  ELSE [marketTicks[i] EXCEPT !.pc = "done"])
    /\ UNCHANGED <<priceHistory, markets, signals, clock, runs, rpc, probe>>

\* evals, inserted and failedAt are history: what the run read and decided for
\* the symbols it came to, the symbols it persisted a Signal for, and the
\* index of the symbol whose read or insert rejected (0: none)
\* symbol is the `symbol` of the request body ("none": the body has none, or
\* the pass was started by the timer)
NewRun(kind, symbol) ==
    [kind |-> kind, symbol |-> symbol, pc |-> "read", idx |-> 1, pending |-> NoSignal,
     evals |-> <<>>, inserted |-> {}, failedAt |-> 0]

\* the `symbol` property of the bodies of the requests
RequestSymbols == {"none", "ETH"}

\* setInterval(updateSignals, 30_000) fires (server.ts:184)
SignalTimer ==
    /\ Len(marketTicks) + Len(runs) < MaxInvocations
    /\ runs' = Append(runs, NewRun("tick", "none"))
    /\ UNCHANGED <<priceHistory, markets, signals, clock, marketTicks, hubVars, rpc, probe>>

\* POST /api/signals/generate arrives with `symbol` in its body; the handler
\* reads it and calls generateSignals() (server.ts:220-225)
ApiRequest(symbol) ==
    /\ Len(marketTicks) + Len(runs) < MaxInvocations
    /\ runs' = Append(runs, NewRun("api", symbol))
    /\ UNCHANGED <<priceHistory, markets, signals, clock, marketTicks, hubVars, rpc, probe>>

\* generateSignals goes on to the next symbol, or returns to its caller:
\* updateSignals broadcasts (server.ts:176); the route goes on to its select.
\* r is the run after the work on its current symbol.
AfterSymbol(i, r) ==
    IF r.idx < Len(Symbols)
    THEN /\ SetRun(i, [r EXCEPT !.pc = "read", !.idx = @ + 1, !.pending = NoSignal])
         /\ UNCHANGED hubVars
    ELSE IF r.kind = "tick"
    THEN /\ SetRun(i, [r EXCEPT !.pc = "done", !.pending = NoSignal])
         /\ Broadcast("newSignal", [by |-> i], {})
    ELSE /\ SetRun(i, [r EXCEPT !.pc = "select", !.pending = NoSignal])
         /\ UNCHANGED hubVars

\* an await of generateSignals, or the route's select, rejects: updateSignals
\* catches and logs (server.ts:177-179); wrapAsync hands the route's failure
\* to the error middleware (server.ts:220, 267-270)
Thrown(i) ==
    SetRun(i, [runs[i] EXCEPT !.pc = IF runs[i].kind = "tick" THEN "caught" ELSE "error500",
                              !.pending = NoSignal,
                              !.failedAt = IF runs[i].pc = "select" THEN 0 ELSE runs[i].idx])

\* await getPriceHistory resolves; the indicators of the symbol are computed
\* and the symbol is skipped or its Signal is ready (technical-analysis.ts:30-77)
ReadOk(i) ==
    /\ runs[i].pc = "read"
    /\ LET sym == Symbols[runs[i].idx]
           e == ReadAndEvaluate(priceHistory[sym])
           r == [runs[i] EXCEPT !.evals = Append(@,
                    [basis |-> StoreKey(priceHistory[sym]), rows |-> e.rows,
                     outcome |-> e.outcome, signalType |-> e.signalType,
                     confidence |-> e.confidence])]
       IN  IF e.outcome = "signal"
           THEN /\ SetRun(i, [r EXCEPT !.pc = "insert",
                                       !.pending = [asset |-> sym,
                                                    signalType |-> e.signalType,
                                                    confidence |-> e.confidence]])
                /\ UNCHANGED hubVars
           ELSE AfterSymbol(i, r)
    /\ UNCHANGED <<priceHistory, markets, signals, clock, marketTicks, rpc, probe>>

\* await getPriceHistory rejects (technical-analysis.ts:30)
ReadFail(i) ==
    /\ runs[i].pc = "read"
    /\ Thrown(i)
    /\ UNCHANGED <<priceHistory, markets, signals, clock, marketTicks, hubVars, rpc, probe>>

\* an insert that first retires the earlier Signals of the asset
InsertOkDeactivating(i) ==
    /\ runs[i].pc = "insert"
    /\ signals' = Append(
           [n \in 1..Len(signals) |->
               IF signals[n].asset = runs[i].pending.asset
               THEN [signals[n] EXCEPT !.active = FALSE] ELSE signals[n]],
           [asset |-> runs[i].pending.asset, signalType |-> runs[i].pending.signalType,
            confidence |-> runs[i].pending.confidence, active |-> TRUE,
            by |-> i, basis |-> Last(runs[i].evals).basis])
    /\ AfterSymbol(i, [runs[i] EXCEPT !.inserted = @ \cup {runs[i].pending.asset}])
    /\ UNCHANGED <<priceHistory, markets, clock, marketTicks, rpc, probe>>

\* an insert guarded per symbol: it stores nothing when a Signal derived
\* from the same history of the asset is already stored
InsertOkOncePerHistory(i) ==
    /\ runs[i].pc = "insert"
    /\ signals' =
          IF \E n \in 1..Len(signals) :
                /\ signals[n].asset = runs[i].pending.asset
                /\ signals[n].basis = Last(runs[i].evals).basis
          THEN signals
          ELSE Append(signals,
                  [asset |-> runs[i].pending.asset,
                   signalType |-> runs[i].pending.signalType,
                   confidence |-> runs[i].pending.confidence, active |-> TRUE,
                   by |-> i, basis |-> Last(runs[i].evals).basis])
    /\ AfterSymbol(i, [runs[i] EXCEPT !.inserted = @ \cup {runs[i].pending.asset}])
    /\ UNCHANGED <<priceHistory, markets, clock, marketTicks, rpc, probe>>

\* await db.insert(signals) resolves (technical-analysis.ts:79-84)
InsertOk(i) ==
    /\ runs[i].pc = "insert"
    /\ signals' = Append(signals,
           [asset |-> runs[i].pending.asset, signalType |-> runs[i].pending.signalType,
            confidence |-> runs[i].pending.confidence, active |-> TRUE,
            by |-> i, basis |-> Last(runs[i].evals).basis])
    /\ AfterSymbol(i, [runs[i] EXCEPT !.inserted = @ \cup {runs[i].pending.asset}])
    /\ UNCHANGED <<priceHistory, markets, clock, marketTicks, rpc, probe>>

\* await db.insert(signals) rejects (technical-analysis.ts:79)
InsertFail(i) ==
    /\ runs[i].pc = "insert"
    /\ Thrown(i)
    /\ UNCHANGED <<priceHistory, markets, signals, clock, marketTicks, hubVars, rpc, probe>>

\* the route's select resolves: respond, then broadcast (server.ts:227-233)
SelectOk(i) ==
    /\ runs[i].pc = "select"
    /\ SetRun(i, [runs[i] EXCEPT !.pc = "done"])
    /\ Broadcast("newSignal", [by |-> i], {})
    /\ UNCHANGED <<priceHistory, markets, signals, clock, marketTicks, rpc, probe>>

\* the route's select rejects (server.ts:227)
SelectFail(i) ==
    /\ runs[i].pc = "select"
    /\ Thrown(i)
    /\ UNCHANGED <<priceHistory, markets, signals, clock, marketTicks, hubVars, rpc, probe>>

(******************* the pure functions on drawn inputs *******************)
\* One call of Decide, ema or rsi: probe holds the arguments the call is made
\* with and, once the call has returned, its result.
MaxProbeLen == 5
MaxProbePeriod == 3

\* closes of the drawn series, in units of 1/Scale
ProbePrices == {1 * Scale, 2 * Scale, 3 * Scale}

RECURSIVE SeqsUpTo(_, _)
SeqsUpTo(S, n) ==
    IF n = 0 THEN {<<>>}
    ELSE LET shorter == SeqsUpTo(S, n - 1)
         IN  shorter \cup {Append(q, x) : q \in {y \in shorter : Len(y) = n - 1},
                                           x \in S}

ProbeSeries == SeqsUpTo(ProbePrices, MaxProbeLen)

\* latest indicator values around the thresholds of the decision: the gap of
\* the two averages below, at and above 0.005; the histogram negative, zero
\* and positive; the RSI not a number, and below, at and above 30 and 70
ProbeSnaps ==
    [latestEma50 : {0, 100 * Scale, 100 * Scale + Scale \div 2, 101 * Scale},
     latestEma200 : {0, 100 * Scale, 100 * Scale + Scale \div 2, 101 * Scale},
     latestMacdHist : {-2 * Scale, 0, 3 * Scale},
     latestRsi : {NaN, 0, 30 * Scale - 1, 30 * Scale, 50 * Scale, 70 * Scale,
                  70 * Scale + 1, 100 * Scale}]

NoSnap == [latestEma50 |-> 0, latestEma200 |-> 0, latestMacdHist |-> 0, latestRsi |-> 0]

NoDecision ==
    [emit |-> FALSE, signalType |-> "none", confidence |-> 0, trendBullish |-> FALSE,
     momentumBullish |-> FALSE, rsiBullish |-> FALSE]

NoProbe ==
    [fn |-> "none", done |-> FALSE, snap |-> NoSnap, series |-> <<>>, period |-> 0,
     decision |-> NoDecision, out |-> <<>>]

ProbeInputs ==
    {[NoProbe EXCEPT !.fn = "Decide", !.snap = sn] : sn \in ProbeSnaps}
    \cup {[NoProbe EXCEPT !.fn = "ema", !.series = sr, !.period = pd] :
              sr \in ProbeSeries, pd \in 0..MaxProbePeriod}
    \cup {[NoProbe EXCEPT !.fn = "rsi", !.series = sr, !.period = pd] :
              sr \in ProbeSeries, pd \in 1..MaxProbePeriod}

\* technical-analysis.ts:46-77 on the latest indicator values probe.snap
ApplyDecide ==
    /\ probe.fn = "Decide" /\ ~probe.done
    /\ probe' = [probe EXCEPT !.done = TRUE, !.decision = Decide(probe.snap)]
    /\ UNCHANGED <<hubVars, schedVars, rpc>>

\* ema(series, period) (indicators.ts:22-34)
ApplyEma ==
    /\ probe.fn = "ema" /\ ~probe.done
    /\ probe' = [probe EXCEPT !.done = TRUE, !.out = ema(probe.series, probe.period)]
    /\ UNCHANGED <<hubVars, schedVars, rpc>>

\* rsi(series, length) (indicators.ts:80-107), length = probe.period
ApplyRsi ==
    /\ probe.fn = "rsi" /\ ~probe.done
    /\ probe' = [probe EXCEPT !.done = TRUE, !.out = rsi(probe.series, probe.period)]
    /\ UNCHANGED <<hubVars, schedVars, rpc>>

(***************************** specifications *****************************)
Init == HubInit /\ SchedInit /\ rpc = RpcIdle /\ probe = NoProbe

Next ==
    \/ MarketTimer
    \/ \E i \in 1..Len(marketTicks) : \E q \in Quotes : FetchOk(i, q)
    \/ \E i \in 1..Len(marketTicks) : FetchFail(i)
    \/ \E i \in 1..Len(marketTicks) : InsertMarketOk(i)
    \/ \E i \in 1..Len(marketTicks) : MarketStoreFail(i)
    \/ \E i \in 1..Len(marketTicks) : AddPriceOk(i)
    \/ \E i \in 1..Len(marketTicks) : PublishMarket(i)
    \/ SignalTimer
    \/ \E symbol \in RequestSymbols : ApiRequest(symbol)
    \/ \E i \in 1..Len(runs) : ReadOk(i)
    \/ \E i \in 1..Len(runs) : ReadFail(i)
    \/ \E i \in 1..Len(runs) : InsertOk(i)
    \/ \E i \in 1..Len(runs) : InsertFail(i)
    \/ \E i \in 1..Len(runs) : SelectOk(i)
    \/ \E i \in 1..Len(runs) : SelectFail(i)

Spec == Init /\ [][Next]_vars

\* the broadcast hub alone: connections, closes and broadcast calls
HubNext ==
    \/ \E ws \in Channels : Connect(ws)
    \/ \E ws \in Channels : BeginClose(ws)
    \/ \E ws \in Channels : OnClose(ws)
    \/ \E e \in Events : \E throwers \in SUBSET Channels : Publish(e, throwers)

SpecHub == Init /\ [][HubNext]_vars

\* one funding-rate call at a time through the RPC wrapper
RpcNext ==
    \/ \E r \in RetryChoices : CallFundingRate(r)
    \/ \E o \in Outcomes : Request(o)
    \/ BackoffDone

SpecRpc == Init /\ [][RpcNext]_vars

\* the same, with what the runtime guarantees: a request settles (the
\* response arrives, the fetch rejects, or the AbortController's timer aborts
\* it after timeoutMs, auth.ts:138-146) and the timer of a backoff fires
\* (auth.ts:152, 163)
SpecRpcLive ==
    /\ SpecRpc
    /\ WF_vars(\E o \in Outcomes : Request(o))
    /\ WF_vars(BackoffDone)

\* one call of a pure function on arguments drawn from the bounded sets
PureInit == HubInit /\ SchedInit /\ rpc = RpcIdle /\ probe \in ProbeInputs

PureNext ==
    \/ ApplyDecide
    \/ ApplyEma
    \/ ApplyRsi

SpecPure == PureInit /\ [][PureNext]_vars

(******************************** claims **********************************)
MarketTicksInFlight == {i \in 1..Len(marketTicks) : marketTicks[i].pc \in MarketInFlight}

SignalTicksInFlight == {i \in TicksOf("tick") : runs[i].pc \in RunInFlight}

\* generateSignals has returned or thrown
GenerateDone(r) == r.pc \in {"select", "done", "caught", "error500"}

\* C1: at any moment at most one invocation of the market-refresh task and
\* at most one invocation of the signal-regeneration task is in flight.
C1_OneTickInFlight ==
    /\ Cardinality(MarketTicksInFlight) <= 1
    /\ Cardinality(SignalTicksInFlight) <= 1

\* C2: when a pass of generateSignals is over, every symbol other than one
\* whose read or insert failed has been evaluated, and has its Signal
\* persisted when its indicators aligned.
C2_PassSurvivesFailure ==
    \A i \in 1..Len(runs) :
        GenerateDone(runs[i]) =>
            \A k \in 1..Len(Symbols) :
                k # runs[i].failedAt =>
                    /\ k <= Len(runs[i].evals)
                    /\ runs[i].evals[k].outcome = "signal"
                          => Symbols[k] \in runs[i].inserted

\* C3: a non-retryable response (a 4xx other than 429, or a body that fails
\* shape validation) fails its call at once: when it is the latest response
\* the call has failed, so no backoff and no further request follow it.
C3_NonRetryableFailsAtOnce ==
    rpc.last \in {"http4xx", "okBadShape"} => rpc.pc = "failed"

\* C4: a broadcast call never throws, and every registered client that was
\* open at the call and whose send did not throw has received the message.
C4_SendFailureIsolated ==
    /\ lastPublish.threw = FALSE
    /\ (lastPublish.open \ lastPublish.throwers) \subseteq lastPublish.delivered

C4_Witness ==
    /\ lastPublish.throwers # {}
    /\ lastPublish.delivered # {}
    /\ lastPublish.attempted[1] \in lastPublish.throwers

Attempts(c) ==
    Cardinality({k \in 1..Len(lastPublish.attempted) : lastPublish.attempted[k] = c})

\* C5 as stated: a broadcast call attempts delivery exactly once to every
\* channel in the registry at the call and to no other channel.
C5_EveryRegisteredOnce ==
    \A c \in Channels : Attempts(c) = IF c \in lastPublish.registry THEN 1 ELSE 0

\* C5 amended: a broadcast call attempts delivery exactly once to every
\* channel that is in the registry and OPEN at the call, and to no other channel.
C5_EveryOpenRegisteredOnce ==
    \A c \in Channels :
        Attempts(c) = IF c \in lastPublish.registry /\ c \in lastPublish.open
                      THEN 1 ELSE 0

C5_Witness ==
    /\ lastPublish.registry \ lastPublish.open # {}
    /\ lastPublish.open # {}
    /\ Len(lastPublish.attempted) = Cardinality(lastPublish.open)

\* C6: the registry holds exactly the channels that have connected and have
\* not signalled close, each once; a broadcast call, also one with a failing
\* send, leaves it so.
C6_RegistryIsConnectedNotClosed ==
    /\ SeqToSet(clients) = connected \ closeNotified
    /\ Len(clients) = Cardinality(SeqToSet(clients))

C6_Witness ==
    /\ lastPublish.throwers \cap SeqToSet(clients) # {}
    /\ closeNotified # {}

TrendBullish(snap) == snap.latestEma50 > snap.latestEma200

MomentumBullish(snap) == snap.latestMacdHist > 0

\* C7: for a symbol with enough history a pass decides LONG exactly when
\* ema50 > ema200 and the MACD histogram > 0, SHORT exactly when neither
\* holds, and skips the symbol exactly when one holds and not the other;
\* every persisted Signal carries the direction decided from the rows read.
C7_DirectionIffAligned ==
    /\ \A i \in 1..Len(runs) : \A k \in 1..Len(runs[i].evals) :
          LET e == runs[i].evals[k]
              snap == SnapshotTable[e.basis]
          IN  e.rows >= MinHistory =>
                /\ (e.outcome = "signal" /\ e.signalType = "LONG")
                      <=> (TrendBullish(snap) /\ MomentumBullish(snap))
                /\ (e.outcome = "signal" /\ e.signalType = "SHORT")
                      <=> (~TrendBullish(snap) /\ ~MomentumBullish(snap))
                /\ (e.outcome = "conflict")
                      <=> (TrendBullish(snap) # MomentumBullish(snap))
    /\ \A n \in 1..Len(signals) :
          LET snap == SnapshotTable[signals[n].basis]
          IN  /\ signals[n].signalType = "LONG"
                    <=> (TrendBullish(snap) /\ MomentumBullish(snap))
              /\ signals[n].signalType = "SHORT"
                    <=> (~TrendBullish(snap) /\ ~MomentumBullish(snap))

C7_Witness ==
    \E i \in 1..Len(runs) :
        /\ \E k \in 1..Len(runs[i].evals) : runs[i].evals[k].outcome = "conflict"
        /\ \E n \in 1..Len(signals) : signals[n].by = i /\ signals[n].signalType = "LONG"
        /\ \E n \in 1..Len(signals) : signals[n].by = i /\ signals[n].signalType = "SHORT"

\* C8: every persisted Signal, and the Signal decided for every history of
\* the model, has an integer confidence from 0 to 100.
C8_ConfidenceInRange ==
    /\ \A n \in 1..Len(signals) : signals[n].confidence \in 0..MaxConfidence
    /\ \A k \in StoreKeys : EvaluateTable[k].confidence \in 0..MaxConfidence

C8_Witness ==
    /\ \E n \in 1..Len(signals) : signals[n].confidence = BaseConfidence
    /\ \E n \in 1..Len(signals) : signals[n].confidence = BaseConfidence + 3 * Bonus

\* the pass went on after its k-th symbol
WentOn(r, k) ==
    IF k < Len(Symbols) THEN r.idx > k
    ELSE r.pc \in {"select", "done", "error500"} /\ r.failedAt = 0

\* C9: a symbol read with fewer than 210 rows is skipped: no Signal is
\* prepared or persisted for it in that pass, the skip does not fail the
\* pass, and the pass goes on to the next symbol.
C9_ShortHistorySkipped ==
    \A i \in 1..Len(runs) : \A k \in 1..Len(runs[i].evals) :
        runs[i].evals[k].rows < MinHistory =>
            /\ runs[i].evals[k].outcome = "short"
            /\ Symbols[k] \notin runs[i].inserted
            /\ ~(runs[i].pending.asset = Symbols[k])
            /\ runs[i].failedAt # k
            /\ WentOn(runs[i], k)

C9_Witness ==
    \E i \in 1..Len(runs) :
        /\ Len(runs[i].evals) = Len(Symbols)
        /\ runs[i].evals[2].rows < MinHistory
        /\ Symbols[3] \in runs[i].inserted
        /\ runs[i].pc = "done"

\* C10: no invocation of a periodic task ends in a rejection nobody caught.
C10_TickFailureCaught ==
    \A i \in 1..Len(marketTicks) : marketTicks[i].pc # "rejected"

\* C11 as stated: the delay before the k-th retry is min(300 * 2^(k-1), 30000):
\* 300 before the first retry, doubling from there.
C11_DelayStartsAtBase ==
    \A k \in 1..Len(rpc.delays) :
        rpc.delays[k] = Min(BackoffBase * Pow2(k - 1), BackoffCap)

\* C11 amended: the delay before the k-th retry (k = 1, 2, ...) is
\* min(300 * 2^k, 30000): 600 before the first retry, doubling from there,
\* never more than 30000; and a delay is waited before every retry.
C11_DelayIsBaseTimesTwoToK ==
    /\ Len(rpc.delays) = rpc.attempt
    /\ \A k \in 1..Len(rpc.delays) :
          rpc.delays[k] = Min(BackoffBase * Pow2(k), BackoffCap)

C11_Witness ==
    /\ Len(rpc.delays) = MaxRetries
    /\ rpc.delays[1] = 2 * BackoffBase
    /\ rpc.delays[2] = 4 * BackoffBase
    /\ rpc.delays[MaxRetries] = BackoffCap

\* the RSI regime as generateSignals takes it (technical-analysis.ts:51-61)
RsiRegimeBullish(snap) ==
    IF isNaN(snap.latestRsi) THEN FALSE
    ELSE IF snap.latestRsi < 30 * Scale THEN TRUE
    ELSE IF snap.latestRsi > 70 * Scale THEN FALSE
    ELSE TrendBullish(snap)

Bracket(cond) == IF cond THEN 1 ELSE 0

\* min(100, 60 + 10*[|hist| > 0] + 10*[gap > 0.005] + 10*[regime = direction])
ExpectedConfidence(snap, long) ==
    Min(MaxConfidence,
        BaseConfidence
        + Bonus * Bracket(Abs(snap.latestMacdHist) > 0)
        + Bonus * Bracket(RelativeGapWide(snap.latestEma50, snap.latestEma200))
        + Bonus * Bracket(RsiRegimeBullish(snap) = long))

\* C12: the confidence of every persisted Signal, and of the Signal decided
\* for every history of the model, is min(100, 60 + 10 for a non-zero MACD
\* histogram + 10 for a relative gap of the averages above 0.005 + 10 for an
\* RSI regime that agrees with the direction), computed from the rows read.
C12_ConfidenceIsBasePlusBonuses ==
    /\ \A n \in 1..Len(signals) :
          signals[n].confidence =
              ExpectedConfidence(SnapshotTable[signals[n].basis],
                                 signals[n].signalType = "LONG")
    /\ \A k \in StoreKeys :
          EvaluateTable[k].outcome = "signal" =>
              EvaluateTable[k].confidence =
                  ExpectedConfidence(SnapshotTable[k], EvaluateTable[k].signalType = "LONG")

C12_Witness ==
    /\ \E n \in 1..Len(signals) :
          /\ signals[n].confidence = BaseConfidence + 2 * Bonus
          /\ RsiRegimeBullish(SnapshotTable[signals[n].basis])
                 # (signals[n].signalType = "LONG")
    /\ \E n \in 1..Len(signals) :
          /\ signals[n].confidence = BaseConfidence + 3 * Bonus
          /\ RelativeGapWide(SnapshotTable[signals[n].basis].latestEma50,
                             SnapshotTable[signals[n].basis].latestEma200)

\* the relative-gap bonus and the RSI-agreement bonus of a LONG both apply
GapAndRsiBonus(snap) ==
    /\ RelativeGapWide(snap.latestEma50, snap.latestEma200)
    /\ RsiRegimeBullish(snap)

\* what C13 says of one evaluation e of rows with the indicator values snap,
\* `top` being the confidence with all three bonuses
LongCase(e, snap, top) ==
    (TrendBullish(snap) /\ MomentumBullish(snap)) =>
        /\ e.outcome = "signal"
        /\ e.signalType = "LONG"
        /\ GapAndRsiBonus(snap) => e.confidence >= BaseConfidence + Bonus
        /\ (GapAndRsiBonus(snap) /\ Abs(snap.latestMacdHist) > 0) => e.confidence = top

LongCaseEverywhere(top) ==
    /\ \A i \in 1..Len(runs) : \A k \in 1..Len(runs[i].evals) :
          runs[i].evals[k].rows >= MinHistory =>
              LongCase(runs[i].evals[k], SnapshotTable[runs[i].evals[k].basis], top)
    /\ \A k \in StoreKeys :
          EvaluateTable[k].rows >= MinHistory =>
              LongCase(EvaluateTable[k], SnapshotTable[k], top)

\* C13 as stated: with ema50 > ema200 and a MACD histogram > 0 a LONG is
\* decided, of confidence at least 70 when the gap and RSI bonuses apply and
\* exactly 100 when all three bonuses apply.
C13_LongIsHundredWithAllBonuses == LongCaseEverywhere(MaxConfidence)

\* C13 amended: with ema50 > ema200 and a MACD histogram > 0 a LONG is
\* decided, of confidence at least 70 when the gap and RSI bonuses apply and
\* exactly 90 (the base of 60 and three bonuses of 10) when all three apply.
C13_LongIsNinetyWithAllBonuses == LongCaseEverywhere(BaseConfidence + 3 * Bonus)

C13_Witness ==
    \E i \in 1..Len(runs) :
        /\ \E n \in 1..Len(signals) :
              /\ signals[n].by = i
              /\ signals[n].signalType = "LONG"
              /\ GapAndRsiBonus(SnapshotTable[signals[n].basis])
              /\ signals[n].confidence = BaseConfidence + 3 * Bonus
        /\ \E n \in 1..Len(signals) :
              /\ signals[n].by = i
              /\ signals[n].signalType = "LONG"
              /\ ~GapAndRsiBonus(SnapshotTable[signals[n].basis])
              /\ signals[n].confidence = BaseConfidence + 2 * Bonus

\* the RSI regime as C14 states it: a latest RSI that is not a number takes
\* the direction of the trend
RegimeNaNInheritsTrend(snap) ==
    IF isNaN(snap.latestRsi) THEN TrendBullish(snap)
    ELSE IF snap.latestRsi < 30 * Scale THEN TRUE
    ELSE IF snap.latestRsi > 70 * Scale THEN FALSE
    ELSE TrendBullish(snap)

\* the confidence of the decision d holds the RSI bonus
RsiBonusGranted(d, snap) ==
    d.confidence =
        Min(MaxConfidence,
            BaseConfidence
            + Bonus * Bracket(Abs(snap.latestMacdHist) > 0)
            + Bonus * Bracket(RelativeGapWide(snap.latestEma50, snap.latestEma200))
            + Bonus)

\* the decision made on probe.snap takes `regime` for the RSI regime and
\* grants the RSI bonus exactly when it agrees with the direction decided
RegimeOfDecision(regime) ==
    (probe.fn = "Decide" /\ probe.done) =>
        /\ probe.decision.rsiBullish = regime
        /\ probe.decision.emit =>
              (RsiBonusGranted(probe.decision, probe.snap)
                  <=> (regime = (probe.decision.signalType = "LONG")))

\* C14 as stated: the RSI regime is bullish below 30, bearish above 70 and
\* the direction of the trend in every other case, a latest RSI that is not a
\* number included; the RSI bonus is granted exactly when the regime agrees
\* with the final direction.
C14_RegimeNaNInheritsTrend == RegimeOfDecision(RegimeNaNInheritsTrend(probe.snap))

\* C14 amended: the RSI regime is bearish when the latest RSI is not a number,
\* bullish below 30, bearish above 70 and the direction of the trend from 30
\* to 70; the RSI bonus is granted exactly when the regime agrees with the
\* final direction.
C14_RegimeNaNIsBearish == RegimeOfDecision(RsiRegimeBullish(probe.snap))

C14_Witness ==
    /\ probe.fn = "Decide" /\ probe.done
    /\ isNaN(probe.snap.latestRsi)
    /\ TrendBullish(probe.snap)
    /\ probe.decision.emit
    /\ probe.decision.signalType = "LONG"
    /\ ~RsiBonusGranted(probe.decision, probe.snap)

\* no close among the first i of the series is below the one before it: the
\* average loss of rsi at entry i is zero
NoLossUpTo(series, i) == \A j \in 1..(i - 1) : series[j + 1] >= series[j]

\* C15: in the result of rsi every entry computed with an average loss of
\* zero, the seeded one and the smoothed ones, is 100.
C15_ZeroLossGivesHundred ==
    (probe.fn = "rsi" /\ probe.done /\ Len(probe.series) >= probe.period + 1) =>
        \A i \in (probe.period + 1)..Len(probe.series) :
            NoLossUpTo(probe.series, i) => probe.out[i] = 100 * Scale

\* C16: the result of ema has as many entries as the series, for every period
\* and every series, the empty one included, and with a period of at most 1
\* it equals the series entry for entry.
C16_EmaKeepsLength ==
    (probe.fn = "ema" /\ probe.done) =>
        /\ Len(probe.out) = Len(probe.series)
        /\ probe.period <= 1 => probe.out = probe.series

\* C17: the stored Signals are append-only: every step keeps the Signals
\* stored before it, unchanged and in place, and every stored Signal has
\* active = TRUE.
C17_SignalsAppendOnly ==
    [][/\ Len(signals') >= Len(signals)
       /\ SubSeq(signals', 1, Len(signals)) = signals
       /\ \A n \in 1..Len(signals') : signals'[n].active]_vars

C17_Witness ==
    \E n \in 1..Len(signals) : \E m \in 1..Len(signals) :
        /\ n < m
        /\ signals[n].asset = signals[m].asset
        /\ signals[n].by # signals[m].by
        /\ runs[signals[n].by].kind = "tick"
        /\ runs[signals[m].by].kind = "api"
        /\ signals[n].active /\ signals[m].active

\* C18: every marketUpdate published for a symbol by a tick is of a price
\* point that the price history of the symbol already holds: the tick
\* fetched, then appended, then published.
C18_PublishedAfterAppend ==
    \A p \in published :
        p.event = "marketUpdate" =>
            /\ \E j \in 1..Len(priceHistory[p.tag.symbol].rows) :
                  priceHistory[p.tag.symbol].rows[j].timestamp = p.tag.timestamp
            /\ \E i \in 1..Len(marketTicks) :
                  /\ marketTicks[i].timestamp = p.tag.timestamp
                  /\ marketTicks[i].fetches = 1

C18_Witness ==
    \E i \in 1..Len(marketTicks) :
        /\ marketTicks[i].pc = "done"
        /\ \A sym \in SymbolSet :
              [event |-> "marketUpdate",
               tag |-> [symbol |-> sym, timestamp |-> marketTicks[i].timestamp]]
                  \in published

\* C19: once a scheduled signal tick or an on-demand generation that
\* persisted a Signal is over, its newSignal event has been published.
C19_PersistedThenPublished ==
    \A i \in 1..Len(runs) :
        (runs[i].pc \in {"done", "caught", "error500"} /\ runs[i].inserted # {}) =>
            [event |-> "newSignal", tag |-> [by |-> i]] \in published

\* C20: an on-demand generation whose request names a symbol evaluates that
\* symbol only and persists Signals for no other asset; one whose request
\* names none evaluates every symbol, when nothing fails.
C20_NamedSymbolOnly ==
    \A i \in 1..Len(runs) :
        runs[i].kind = "api" =>
            IF runs[i].symbol # "none"
            THEN /\ runs[i].inserted \subseteq {runs[i].symbol}
                 /\ \A k \in 1..Len(runs[i].evals) : Symbols[k] = runs[i].symbol
            ELSE (runs[i].pc = "done" /\ runs[i].failedAt = 0) =>
                     Len(runs[i].evals) = Len(Symbols)

\* the market ticks whose fetch failed
SkippedTicks == {i \in 1..Len(marketTicks) : marketTicks[i].pc = "skipped"}

\* the step in which the fetch of market tick i fails
FetchFails(i) == marketTicks[i].pc = "fetch" /\ marketTicks'[i].pc = "skipped"

\* C21: a market tick whose upstream fetch fails issued exactly one fetch;
\* the step in which the fetch fails and every later step leave the tick
\* where it is, so it appends no price point, stores no market row and
\* publishes no marketUpdate; and a market tick scheduled after it fetches
\* on its own account: it starts at its fetch and issues one.
C21_FailedFetchSkipsTick ==
    /\ [](\A i \in SkippedTicks :
             /\ marketTicks[i].fetches = 1
             /\ marketTicks[i].idx = 0
             /\ \A j \in 1..Len(marketTicks) :
                   j > i => /\ marketTicks[j].fetches <= 1
                            /\ marketTicks[j].pc = "fetch" <=> marketTicks[j].fetches = 0)
    /\ [][\A i \in 1..Len(marketTicks) :
             /\ FetchFails(i) =>
                   /\ marketTicks'[i].fetches = 1
                   /\ UNCHANGED <<priceHistory, markets, published>>
             /\ i \in SkippedTicks => marketTicks'[i] = marketTicks[i]]_vars

\* a tick's fetch failed, and the tick scheduled after it fetched and
\* published its first marketUpdate
C21_Witness ==
    \E i \in SkippedTicks : \E j \in 1..Len(marketTicks) :
        /\ j > i
        /\ marketTicks[j].fetches = 1
        /\ marketTicks[j].pc \in {"insertMarket", "done"}
        /\ marketTicks[j].idx > 1
        /\ \A p \in published :
              p.event = "marketUpdate" => p.tag.timestamp = marketTicks[j].timestamp

\* postJSON returned its response to getFundingRate (which may then reject
\* the shape of the body, auth.ts:184-192)
WrapperReturned ==
    \/ rpc.pc = "returned"
    \/ rpc.pc = "failed" /\ rpc.error = "FundingRateDeserializationError"

\* postJSON threw to its caller (auth.ts:166)
WrapperThrew == rpc.pc = "failed" /\ rpc.error # "FundingRateDeserializationError"

\* the error a failed request raises in postJSON (auth.ts:155-156, 158-159)
ErrorOf(outcome) ==
    CASE outcome = "transport" -> "transport"
      [] outcome = "okBadJson" -> "json"
      [] OTHER -> "http"

\* C22: a call of the wrapper with retry budget r issues at most r + 1
\* requests and always ends: it returns the first response that succeeded
\* (every request before it failed and was retried), or it throws the error
\* of its last request once all r retries are used up, after r + 1 requests.
C22_TerminatesWithinBudget ==
    /\ [](/\ rpc.requests <= rpc.retries + 1
          /\ rpc.attempt <= rpc.retries
          /\ WrapperReturned =>
                /\ rpc.last \in {"ok", "okBadShape"}
                /\ rpc.requests = rpc.attempt + 1
          /\ WrapperThrew =>
                /\ rpc.attempt = rpc.retries
                /\ rpc.requests = rpc.retries + 1
                /\ rpc.last \notin {"ok", "okBadShape"}
                /\ rpc.error = ErrorOf(rpc.last))
    /\ (rpc.pc \in {"request", "backoff"}) ~> (rpc.pc \in {"returned", "failed"})

\* a call with the default budget threw the 5xx of its third request
C22_Witness ==
    /\ WrapperThrew
    /\ rpc.retries = DefaultRetries
    /\ rpc.requests = DefaultRetries + 1
    /\ rpc.last = "http5xx"
    /\ Len(rpc.delays) = DefaultRetries

\* run i got a Signal out of its k-th symbol and its insert resolved
StoredFor(i, k) ==
    /\ k <= Len(runs[i].evals)
    /\ runs[i].evals[k].outcome = "signal"
    /\ Symbols[k] \in runs[i].inserted

\* the Signals run i stored for the asset from the history `basis`
SignalsOf(i, asset, basis) ==
    {n \in 1..Len(signals) :
        signals[n].by = i /\ signals[n].asset = asset /\ signals[n].basis = basis}

\* C23: nothing interlocks a scheduled signal tick and an on-demand
\* generation: when both are at the insert of the same symbol both inserts
\* can go ahead, and when both got a Signal out of the same history of a
\* symbol and their inserts resolved, each has stored its own Signal, so
\* two Signals of the symbol derived from the same history are stored.
C23_TickAndRequestNotInterlocked ==
    \A i \in TicksOf("tick") : \A j \in TicksOf("api") : \A k \in 1..Len(Symbols) :
        /\ (runs[i].pc = "insert" /\ runs[j].pc = "insert"
                /\ runs[i].idx = k /\ runs[j].idx = k)
              => ENABLED InsertOk(i) /\ ENABLED InsertOk(j)
        /\ (StoredFor(i, k) /\ StoredFor(j, k)
                /\ runs[i].evals[k].basis = runs[j].evals[k].basis)
              => /\ Cardinality(SignalsOf(i, Symbols[k], runs[i].evals[k].basis)) = 1
                 /\ Cardinality(SignalsOf(j, Symbols[k], runs[i].evals[k].basis)) = 1

\* a tick and a request were in flight together, read the same history of
\* a symbol, and the Signal of each is stored
C23_Witness ==
    \E i \in TicksOf("tick") : \E j \in TicksOf("api") : \E k \in 1..Len(Symbols) :
        /\ StoredFor(i, k) /\ StoredFor(j, k)
        /\ runs[i].evals[k].basis = runs[j].evals[k].basis
        /\ runs[i].pc \in RunInFlight /\ runs[j].pc \in RunInFlight
        /\ \E n \in SignalsOf(i, Symbols[k], runs[i].evals[k].basis) :
           \E m \in SignalsOf(j, Symbols[k], runs[i].evals[k].basis) :
              /\ signals[n].signalType = signals[m].signalType
              /\ signals[n].confidence = signals[m].confidence

\* the confidence of the decision d holds the MACD bonus
MacdBonusGranted(d, snap) ==
    d.confidence =
        Min(MaxConfidence,
            BaseConfidence
            + Bonus
            + Bonus * Bracket(RelativeGapWide(snap.latestEma50, snap.latestEma200))
            + Bonus * Bracket(d.rsiBullish = (d.signalType = "LONG")))

\* the confidences C24 allows: 60, 70, 80, 90
ConfidenceSteps == {BaseConfidence + n * Bonus : n \in 0..3}

\* C24: every Signal the engine decides has a confidence of 60, 70, 80 or
\* 90, below the clamp of 100; a LONG holds the MACD bonus and so has at
\* least 70; a Signal misses the MACD bonus exactly when it is a SHORT
\* decided on a histogram of zero. The same range holds for the Signal of
\* every history of the model.
C24_ConfidenceSteps ==
    /\ (probe.fn = "Decide" /\ probe.done /\ probe.decision.emit) =>
          /\ probe.decision.confidence \in ConfidenceSteps
          /\ probe.decision.confidence < MaxConfidence
          /\ probe.decision.signalType = "LONG" =>
                /\ probe.snap.latestMacdHist > 0
                /\ MacdBonusGranted(probe.decision, probe.snap)
                /\ probe.decision.confidence >= BaseConfidence + Bonus
          /\ ~MacdBonusGranted(probe.decision, probe.snap) <=>
                /\ probe.decision.signalType = "SHORT"
                /\ probe.snap.latestMacdHist = 0
    /\ \A k \in StoreKeys :
          EvaluateTable[k].outcome = "signal" =>
              /\ EvaluateTable[k].confidence \in ConfidenceSteps
              /\ EvaluateTable[k].signalType = "LONG" =>
                    EvaluateTable[k].confidence >= BaseConfidence + Bonus

\* a SHORT decided on a negative histogram holds the MACD bonus and nothing
\* else: its confidence is 70
C24_Witness ==
    /\ probe.fn = "Decide" /\ probe.done /\ probe.decision.emit
    /\ probe.decision.signalType = "SHORT"
    /\ probe.snap.latestMacdHist < 0
    /\ probe.decision.confidence = BaseConfidence + Bonus
    /\ MacdBonusGranted(probe.decision, probe.snap)

====
